---------------------------- MODULE Spec2Model ----------------------------
(***************************************************************************)
(* WebSocketServer (ixwebsocket/IXWebSocketServer.cpp): the per-connection *)
(* worker handleConnection, the client registry _clients guarded by        *)
(* _clientsMutex, the hook setters and stop().                             *)
(*                                                                         *)
(* The accepting server (SocketServer) and the session engine (WebSocket)  *)
(* are not part of IXWebSocketServer.cpp; the few operations of theirs     *)
(* that handleConnection and stop() call are modelled from their           *)
(* documented interface and are marked as such below.                      *)
(*                                                                         *)
(* The hooks are plain std::function members without synchronisation.  The *)
(* model covers the executions that are free of data races on them: a      *)
(* setter is atomic with respect to a worker step, and the two reads of    *)
(* lines 86 and 99, which no synchronisation point separates, are one step.*)
(* The setters' inputs are non-empty callbacks.                            *)
(***************************************************************************)
EXTENDS Naturals, Sequences, FiniteSets, TLC

\* Number of connections the accepting server hands to handleConnection.
MaxConn == 2
\* Number of messages a session delivers to its per-message handler.
MaxMsgs == 1
\* messages a peer sends in a row to one session
MaxBurst == 2
\* calls of stop(): the application's, then the destructor's
MaxStops == 2

Conns == 1..MaxConn

\* const bool WebSocketServer::kDefaultEnablePong(true)
kDefaultEnablePong == TRUE

\* The pong calls the application makes, in this order, at any time.
PongScript == << "enablePong", "disablePong", "enablePong" >>

NullCb == "null"
\* Callbacks an application may pass to setOnConnectionCallback.
ConnectionCallbacks == {"cbA"}
\* Callbacks an application may pass to setOnClientMessageCallback.
ClientMessageCallbacks == {"cb1", "cb2"}

\* Results WebSocket::connectToSocket may return (success, http_status, errorStr).
HandshakeResults ==
    { [success |-> TRUE,  http_status |-> 101, errorStr |-> ""],
      [success |-> FALSE, http_status |-> 400, errorStr |-> "Error reading HTTP request line"],
      [success |-> FALSE, http_status |-> 0,   errorStr |-> "Timeout" ] }

NoStatus == [success |-> FALSE, http_status |-> 0, errorStr |-> "unset"]

VARIABLES
    pc,                       \* pc[c]: where worker c stands in handleConnection
    onMessageCallback,        \* onMessageCallback[c]: the session's per-message handler
    closeRequested,           \* closeRequested[c]: close() was called on the session
    status,                   \* status[c]: the result of connectToSocket
    trace,                    \* trace[c]: what worker c has done, in order
    clients,                  \* _clients
    clientsMutex,             \* owner of _clientsMutex: Free, Stopper or Worker(c)
    accepting,                \* the accepting server still accepts connections
    accepted,                 \* number of connections accepted so far
    onConnectionCallback,     \* _onConnectionCallback
    onClientMessageCallback,  \* _onClientMessageCallback
    stopPc,                   \* where the thread calling stop() stands
    snapshot,                 \* stop()'s local copy "clients"
    stopTrace,                \* what stop() has done, in order
    enablePongFlag,           \* _enablePong
    enablePerMessageDeflateFlag, \* _enablePerMessageDeflate
    pongCalls,                \* the enablePong()/disablePong() calls made, in order
    observerPc                \* where the thread calling getClients() or
                              \* getConnectedClientsCount() stands

vars == << pc, onMessageCallback, closeRequested, status, trace, clients,
           clientsMutex, accepting, accepted, onConnectionCallback,
           onClientMessageCallback, stopPc, snapshot, stopTrace,
           enablePongFlag, enablePerMessageDeflateFlag, pongCalls, observerPc >>

workerVars == << pc, onMessageCallback, status, trace >>
stopVars == << stopPc, snapshot, stopTrace >>
hookVars == << onConnectionCallback, onClientMessageCallback >>
optionVars == << enablePongFlag, enablePerMessageDeflateFlag, pongCalls >>

Ev(op, arg) == << op, arg >>

\* Owners of _clientsMutex.
Free == << "none", 0 >>
Stopper == << "stop", 0 >>
Observer == << "observer", 0 >>
Worker(c) == << "worker", c >>

Log(c, events) == [trace EXCEPT ![c] = trace[c] \o events]

----------------------------------------------------------------------------
(* Log lines of handleConnection. *)

MsgBadRegistration ==
    "WebSocketServer Application developer error: Server callback improperly registerered."
MsgMissingSetOnMessage ==
    "Missing call to setOnMessageCallback inside setOnConnectionCallback."
MsgNoCallback ==
    "WebSocketServer Application developer error: No server callback is registerered."
MsgMissingCallback ==
    "Missing call to setOnConnectionCallback or setOnClientMessageCallback."
MsgCannotDelete == "Cannot delete client"

\* ss << "... HTTP status: " << status.http_status << " error: " << status.errorStr
HandshakeErrorLine(st) ==
    "WebSocketServer::handleConnection() HTTP status: " \o ToString(st.http_status)
        \o " error: " \o st.errorStr

----------------------------------------------------------------------------
(* Decisions of handleConnection. *)

\* A selection that tests _onClientMessageCallback first.
SelectHookMessageFirst(onConn, onMsg) ==
    IF onMsg # NullCb THEN "B"
    ELSE IF onConn # NullCb THEN "A"
    ELSE "none"

\* A selection whose second branch is a plain else.
SelectHookNoCheck(onConn, onMsg) ==
    IF onConn # NullCb THEN "A" ELSE "B"

\* if (_onConnectionCallback) ... else if (_onClientMessageCallback) ... else
SelectHook(onConn, onMsg) ==
    IF onConn # NullCb THEN "A"
    ELSE IF onMsg # NullCb THEN "B"
    ELSE "none"

\* webSocket->isOnMessageCallbackRegistered(), of a session whose handler is cb
isOnMessageCallbackRegistered(cb) == cb # NullCb

\* A worker that goes on whatever the session reports.
OnConnectionOutcomeUnchecked(cb) == "configure"

\* if (!webSocket->isOnMessageCallbackRegistered()) { ...; return; }
OnConnectionOutcome(cb) ==
    IF ~isOnMessageCallbackRegistered(cb) THEN "abandon" ELSE "configure"

\* A misconfiguration path that returns without setTerminated().
AfterMisconfigurationReturns == "done"

\* logError x2; connectionState->setTerminated(); return;
AfterMisconfiguration == "setTerminated"

\* A worker that starts the handshake without the insert block.
AfterConfigureSkipsInsert == "connect"

\* After the pong setting the worker enters the insert block.
AfterConfigure == "lockInsert"

\* An insert that adds nothing.
InsertClientDrops(set, c) == set

\* _clients.insert(webSocket)
InsertClient(set, c) == set \cup {c}

\* An erase that removes nothing.
EraseClientKeeps(set, c) == set

\* _clients.erase(webSocket): the set without c, and the number of entries removed
EraseClient(set, c) == set \ {c}
EraseCount(set, c) == IF c \in set THEN 1 ELSE 0

\* A worker that runs the session whatever the handshake status.
AfterConnectAlwaysRuns(st) == "run"

\* if (status.success) run() else logError(...)
AfterConnect(st) == IF st.success THEN "run" ELSE "logHandshake"

\* The worker goes from the session straight to the erase.
AfterSessionSkipsClear == "lockErase"

\* After run() or the handshake error line: setOnMessageCallback(nullptr)
AfterSession == "clearCallback"

\* After setOnMessageCallback(nullptr): the erase block
AfterClear == "lockErase"

\* After the erase block: connectionState->setTerminated()
AfterErase == "setTerminated"

\* A pong setting opposite to the flag.
PongSettingInverted(flag) == IF flag THEN "disablePong" ELSE "enablePong"

\* if (_enablePong) webSocket->enablePong(); else webSocket->disablePong();
PongSetting(flag) == IF flag THEN "enablePong" ELSE "disablePong"

\* The permessage-deflate setting of a session: handleConnection hands
\* connectToSocket the socket and the timeout only, so it is the setting a
\* fresh session has.
SessionPerMessageDeflate(c) == TRUE

\* A loop over the live set instead of the copy.
CloseTargetsLive == clients

\* The lock is kept beyond the block that took it.
ReleaseMutexLate(holder) == holder

\* Lines 131, 157, 166, 172: the lock_guard's scope ends with the registry
\* operation, which releases the mutex.
ReleaseMutex(holder) == Free

\* The lambda has the state, the info and the session of the first connection.
LambdaCapturesShared(c) == [connectionState |-> 1, connectionInfo |-> 1, ws |-> 1]

\* Line 101: [this, &ws, connectionState, &ci], the worker's own objects.
LambdaCaptures(c) == [connectionState |-> c, connectionInfo |-> c, ws |-> c]

\* The lambda keeps the hook it called first.
HookReadOnce(c) ==
    LET calls == { i \in DOMAIN trace[c] : trace[c][i][1] = "OnClientMessage" }
    IN  IF calls = {} THEN onClientMessageCallback
        ELSE trace[c][CHOOSE i \in calls : \A j \in calls : i <= j][2].hook

\* Lines 101-104: the lambda captures this and calls _onClientMessageCallback,
\* the member as it is when a message arrives.
HookRead(c) == onClientMessageCallback

\* for (auto client : clients): the sessions stop() closes
CloseTargets == snapshot

getConnectedClientsCount == Cardinality(clients)

----------------------------------------------------------------------------
Init ==
    /\ pc = [c \in Conns |-> "idle"]
    /\ onMessageCallback = [c \in Conns |-> NullCb]
    /\ closeRequested = [c \in Conns |-> FALSE]
    /\ status = [c \in Conns |-> NoStatus]
    /\ trace = [c \in Conns |-> << >>]
    /\ clients = {}
    /\ clientsMutex = Free
    /\ accepting = TRUE
    /\ accepted = 0
    /\ onConnectionCallback = NullCb
    /\ onClientMessageCallback = NullCb
    /\ stopPc = "idle"
    /\ snapshot = {}
    /\ stopTrace = << >>
    /\ enablePongFlag = kDefaultEnablePong
    /\ enablePerMessageDeflateFlag = TRUE
    /\ pongCalls = << >>
    /\ observerPc = "idle"

----------------------------------------------------------------------------
(* The application's calls. *)

setOnConnectionCallback(callback) ==
    /\ onConnectionCallback' = callback
    /\ UNCHANGED << workerVars, stopVars, closeRequested, clients, clientsMutex,
                    accepting, accepted, onClientMessageCallback, optionVars, observerPc >>

setOnClientMessageCallback(callback) ==
    /\ onClientMessageCallback' = callback
    /\ UNCHANGED << workerVars, stopVars, closeRequested, clients, clientsMutex,
                    accepting, accepted, onConnectionCallback, optionVars, observerPc >>

\* The next call of the application's script is this one.
NextPongCall(name) ==
    /\ Len(pongCalls) < Len(PongScript)
    /\ PongScript[Len(pongCalls) + 1] = name

enablePong ==
    /\ NextPongCall("enablePong")
    /\ enablePongFlag' = TRUE
    /\ pongCalls' = Append(pongCalls, "enablePong")
    /\ UNCHANGED << workerVars, stopVars, hookVars, closeRequested, clients,
                    clientsMutex, accepting, accepted, enablePerMessageDeflateFlag,
                    observerPc >>

disablePong ==
    /\ NextPongCall("disablePong")
    /\ enablePongFlag' = FALSE
    /\ pongCalls' = Append(pongCalls, "disablePong")
    /\ UNCHANGED << workerVars, stopVars, hookVars, closeRequested, clients,
                    clientsMutex, accepting, accepted, enablePerMessageDeflateFlag,
                    observerPc >>

disablePerMessageDeflate ==
    /\ enablePerMessageDeflateFlag' = FALSE
    /\ UNCHANGED << workerVars, stopVars, hookVars, closeRequested, clients,
                    clientsMutex, accepting, accepted, enablePongFlag, pongCalls,
                    observerPc >>

\* Line 164: getClients() takes the mutex.
GetClientsCallLock ==
    /\ observerPc = "idle"
    /\ clientsMutex = Free
    /\ clientsMutex' = Observer
    /\ observerPc' = "copy"
    /\ UNCHANGED << workerVars, stopVars, hookVars, optionVars, closeRequested,
                    clients, accepting, accepted >>

\* Lines 165-166: getClients() returns a copy of _clients and releases.
GetClientsCallReturns ==
    /\ observerPc = "copy"
    /\ clientsMutex = Observer
    /\ clientsMutex' = ReleaseMutex(Observer)
    /\ observerPc' = "idle"
    /\ UNCHANGED << workerVars, stopVars, hookVars, optionVars, closeRequested,
                    clients, accepting, accepted >>

\* Line 170: getConnectedClientsCount() takes the mutex.
GetCountCallLock ==
    /\ observerPc = "idle"
    /\ clientsMutex = Free
    /\ clientsMutex' = Observer
    /\ observerPc' = "size"
    /\ UNCHANGED << workerVars, stopVars, hookVars, optionVars, closeRequested,
                    clients, accepting, accepted >>

\* Lines 171-172: getConnectedClientsCount() returns _clients.size() and releases.
GetCountCallReturns ==
    /\ observerPc = "size"
    /\ clientsMutex = Observer
    /\ clientsMutex' = ReleaseMutex(Observer)
    /\ observerPc' = "idle"
    /\ UNCHANGED << workerVars, stopVars, hookVars, optionVars, closeRequested,
                    clients, accepting, accepted >>

----------------------------------------------------------------------------
(* The accepting server hands the next accepted connection to a worker. *)

Accept ==
    /\ accepting
    /\ accepted < MaxConn
    /\ accepted' = accepted + 1
    /\ pc' = [pc EXCEPT ![accepted + 1] = "start"]
    /\ UNCHANGED << onMessageCallback, closeRequested, status, trace, clients,
                    clientsMutex, accepting, hookVars, stopVars, optionVars, observerPc >>

----------------------------------------------------------------------------
(* handleConnection, one worker per connection. *)

\* Lines 85-114: allocate the session and select the hook.  The first event
\* of a worker's trace records which hooks were set when the selection read them.
Dispatch(c) ==
    /\ pc[c] = "start"
    /\ LET path == SelectHook(onConnectionCallback, onClientMessageCallback)
           seen == Ev("dispatch", << onConnectionCallback # NullCb,
                                     onClientMessageCallback # NullCb >>)
       IN
        CASE path = "A" ->
                /\ pc' = [pc EXCEPT ![c] = "inOnConnection"]
                /\ trace' = Log(c, << seen, Ev("OnConnection", onConnectionCallback) >>)
                /\ UNCHANGED onMessageCallback
          [] path = "B" ->
                /\ onMessageCallback' = [onMessageCallback EXCEPT ![c] = "lambda"]
                /\ pc' = [pc EXCEPT ![c] = "configure"]
                /\ trace' = Log(c, << seen, Ev("setOnMessageCallback", "lambda") >>)
          [] OTHER ->
                /\ pc' = [pc EXCEPT ![c] = AfterMisconfiguration]
                /\ trace' = Log(c, << seen, Ev("logError", MsgNoCallback),
                                      Ev("logError", MsgMissingCallback) >>)
                /\ UNCHANGED onMessageCallback
    /\ UNCHANGED << closeRequested, status, clients, clientsMutex, accepting,
                    accepted, hookVars, stopVars, optionVars, observerPc >>

\* Lines 88-97: the OnConnection hook returns, having called
\* setOnMessageCallback on the session or not, and line 90 tests the session.
OnConnectionReturns(c, registers) ==
    /\ pc[c] = "inOnConnection"
    /\ LET cb == IF registers THEN "user" ELSE NullCb
           called == IF registers THEN << Ev("setOnMessageCallback", "user") >> ELSE << >>
           returned == called \o << Ev("OnConnectionReturned", "") >>
       IN
        /\ onMessageCallback' = [onMessageCallback EXCEPT ![c] = cb]
        /\ IF OnConnectionOutcome(cb) = "configure"
           THEN /\ pc' = [pc EXCEPT ![c] = "configure"]
                /\ trace' = Log(c, returned)
           ELSE /\ pc' = [pc EXCEPT ![c] = AfterMisconfiguration]
                /\ trace' = Log(c, returned \o << Ev("logError", MsgBadRegistration),
                                                  Ev("logError", MsgMissingSetOnMessage) >>)
    /\ UNCHANGED << closeRequested, status, clients, clientsMutex, accepting,
                    accepted, hookVars, stopVars, optionVars, observerPc >>

\* Lines 116-125: disableAutomaticReconnection and the pong setting.  The
\* "configure" event records the pong calls made so far and the server's
\* permessage-deflate flag as they stand when the configuration runs.
Configure(c) ==
    /\ pc[c] = "configure"
    /\ pc' = [pc EXCEPT ![c] = AfterConfigure]
    /\ trace' = Log(c, << Ev("configure", << pongCalls, enablePerMessageDeflateFlag >>),
                          Ev("disableAutomaticReconnection", ""),
                          Ev(PongSetting(enablePongFlag), "") >>)
    /\ UNCHANGED << onMessageCallback, closeRequested, status, clients,
                    clientsMutex, accepting, accepted, hookVars, stopVars, optionVars, observerPc >>

\* Line 129: std::lock_guard<std::mutex> lock(_clientsMutex)
LockInsert(c) ==
    /\ pc[c] = "lockInsert"
    /\ clientsMutex = Free
    /\ clientsMutex' = Worker(c)
    /\ pc' = [pc EXCEPT ![c] = "insert"]
    /\ UNCHANGED << onMessageCallback, closeRequested, status, trace, clients,
                    accepting, accepted, hookVars, stopVars, optionVars, observerPc >>

\* Lines 130-131: insert, and the guard's release at the end of the block.
Insert(c) ==
    /\ pc[c] = "insert"
    /\ clientsMutex = Worker(c)
    /\ clients' = InsertClient(clients, c)
    /\ clientsMutex' = ReleaseMutex(Worker(c))
    /\ pc' = [pc EXCEPT ![c] = "connect"]
    /\ trace' = Log(c, << Ev("insert", "") >>)
    /\ UNCHANGED << onMessageCallback, closeRequested, status, accepting,
                    accepted, hookVars, stopVars, optionVars, observerPc >>

\* Lines 133-134: connectToSocket returns a status.
ConnectToSocket(c, st) ==
    /\ pc[c] = "connect"
    /\ status' = [status EXCEPT ![c] = st]
    /\ pc' = [pc EXCEPT ![c] = AfterConnect(st)]
    /\ trace' = Log(c, << Ev("connectToSocket", IF st.success THEN "success" ELSE "failure") >>)
    /\ UNCHANGED << onMessageCallback, closeRequested, clients, clientsMutex,
                    accepting, accepted, hookVars, stopVars, optionVars, observerPc >>

\* Lines 142-145: the handshake error line.
LogHandshake(c) ==
    /\ pc[c] = "logHandshake"
    /\ pc' = [pc EXCEPT ![c] = AfterSession]
    /\ trace' = Log(c, << Ev("logError", HandshakeErrorLine(status[c])) >>)
    /\ UNCHANGED << onMessageCallback, closeRequested, status, clients,
                    clientsMutex, accepting, accepted, hookVars, stopVars, optionVars, observerPc >>

NumMessages(c) ==
    Cardinality({ i \in DOMAIN trace[c] : trace[c][i][1] \in {"OnClientMessage", "userOnMessage"} })

Running(c) == pc[c] = "running"

\* Line 138: webSocket->run() is entered.
Run(c) ==
    /\ pc[c] = "run"
    /\ pc' = [pc EXCEPT ![c] = "running"]
    /\ trace' = Log(c, << Ev("run", "") >>)
    /\ UNCHANGED << onMessageCallback, closeRequested, status, clients,
                    clientsMutex, accepting, accepted, hookVars, stopVars, optionVars, observerPc >>

\* Lines 102-104: what the lambda does with message number msg, as trace
\* events: one call of the server's hook with the lambda's captures.
LambdaBody(c, msg) ==
    << Ev("OnClientMessage", [hook |-> HookRead(c),
                              connectionState |-> LambdaCaptures(c).connectionState,
                              connectionInfo |-> LambdaCaptures(c).connectionInfo,
                              ws |-> LambdaCaptures(c).ws,
                              msg |-> msg]) >>

\* The session hands its next message to its per-message handler.
Deliver(c, limit) ==
    /\ NumMessages(c) < limit
    /\ onMessageCallback[c] # NullCb
    /\ trace' = Log(c, IF onMessageCallback[c] = "lambda"
                       THEN LambdaBody(c, NumMessages(c) + 1)
                       ELSE << Ev("userOnMessage", "") >>)
    /\ UNCHANGED << pc, onMessageCallback, closeRequested, status, clients,
                    clientsMutex, accepting, accepted, hookVars, stopVars,
                    optionVars, observerPc >>

\* Inside run(): a message of the peer is delivered.
DeliverMessage(c) ==
    /\ Running(c)
    /\ Deliver(c, MaxMsgs)

\* Inside run(): a peer sends several messages in a row.
DeliverBurst(c) ==
    /\ Running(c)
    /\ Deliver(c, MaxBurst)

\* After run() has returned the session engine still holds a frame and
\* dispatches it to the handler the session has at that moment.
DeliverLate(c) ==
    /\ pc[c] \in {"clearCallback", "lockErase", "erase", "setTerminated", "done"}
    /\ \E i \in DOMAIN trace[c] : trace[c][i][1] = "runReturned"
    /\ Deliver(c, MaxBurst)

\* run() returns because close() was called on the session.
RunReturnsLocalClose(c) ==
    /\ Running(c)
    /\ closeRequested[c]
    /\ pc' = [pc EXCEPT ![c] = AfterSession]
    /\ trace' = Log(c, << Ev("runReturned", "close") >>)
    /\ UNCHANGED << onMessageCallback, closeRequested, status, clients,
                    clientsMutex, accepting, accepted, hookVars, stopVars, optionVars, observerPc >>

\* run() returns because the peer closed or the connection broke.
RunReturnsPeerClose(c) ==
    /\ Running(c)
    /\ pc' = [pc EXCEPT ![c] = AfterSession]
    /\ trace' = Log(c, << Ev("runReturned", "peer") >>)
    /\ UNCHANGED << onMessageCallback, closeRequested, status, clients,
                    clientsMutex, accepting, accepted, hookVars, stopVars, optionVars, observerPc >>

\* Line 148: webSocket->setOnMessageCallback(nullptr)
ClearCallback(c) ==
    /\ pc[c] = "clearCallback"
    /\ onMessageCallback' = [onMessageCallback EXCEPT ![c] = NullCb]
    /\ pc' = [pc EXCEPT ![c] = AfterClear]
    /\ trace' = Log(c, << Ev("setOnMessageCallback", NullCb) >>)
    /\ UNCHANGED << closeRequested, status, clients, clientsMutex, accepting,
                    accepted, hookVars, stopVars, optionVars, observerPc >>

\* Line 152: std::lock_guard<std::mutex> lock(_clientsMutex)
LockErase(c) ==
    /\ pc[c] = "lockErase"
    /\ clientsMutex = Free
    /\ clientsMutex' = Worker(c)
    /\ pc' = [pc EXCEPT ![c] = "erase"]
    /\ UNCHANGED << onMessageCallback, closeRequested, status, trace, clients,
                    accepting, accepted, hookVars, stopVars, optionVars, observerPc >>

\* Lines 153-157: erase, the log line when nothing was removed, the release.
Erase(c) ==
    /\ pc[c] = "erase"
    /\ clientsMutex = Worker(c)
    /\ clients' = EraseClient(clients, c)
    /\ clientsMutex' = ReleaseMutex(Worker(c))
    /\ pc' = [pc EXCEPT ![c] = AfterErase]
    /\ trace' = Log(c, << Ev("erase", ToString(EraseCount(clients, c))) >>
                        \o IF EraseCount(clients, c) # 1
                           THEN << Ev("logError", MsgCannotDelete) >>
                           ELSE << >>)
    /\ UNCHANGED << onMessageCallback, closeRequested, status, accepting,
                    accepted, hookVars, stopVars, optionVars, observerPc >>

\* Lines 95, 112, 159: connectionState->setTerminated(), and the return.
SetTerminated(c) ==
    /\ pc[c] = "setTerminated"
    /\ pc' = [pc EXCEPT ![c] = "done"]
    /\ trace' = Log(c, << Ev("setTerminated", "") >>)
    /\ UNCHANGED << onMessageCallback, closeRequested, status, clients,
                    clientsMutex, accepting, accepted, hookVars, stopVars, optionVars, observerPc >>

----------------------------------------------------------------------------
(* stop(), called by one thread. *)

AllWorkersTerminated == \A c \in Conns : pc[c] \in {"idle", "done"}

\* The calls of stop() so far, and where the current one begins in stopTrace.
NumStops ==
    Cardinality({ i \in DOMAIN stopTrace : stopTrace[i][1] = "stopAcceptingConnections" })
LastStop ==
    LET begins == { i \in DOMAIN stopTrace : stopTrace[i][1] = "stopAcceptingConnections" }
    IN  IF begins = {} THEN 0 ELSE CHOOSE i \in begins : \A j \in begins : j <= i

\* The sessions the loop of the current call has closed.
Closed ==
    { stopTrace[i][2] : i \in { j \in DOMAIN stopTrace :
                                    j > LastStop /\ stopTrace[j][1] = "close" } }

\* Line 43: stopAcceptingConnections()
StopAccepting ==
    /\ stopPc = "idle"
    /\ accepting' = FALSE
    /\ stopPc' = "getClients"
    /\ stopTrace' = Append(stopTrace, Ev("stopAcceptingConnections", 0))
    /\ UNCHANGED << workerVars, closeRequested, clients, clientsMutex, accepted,
                    hookVars, optionVars, observerPc, snapshot >>

\* Lines 45, 164: getClients() takes the mutex.
GetClientsLock ==
    /\ stopPc = "getClients"
    /\ clientsMutex = Free
    /\ clientsMutex' = Stopper
    /\ stopPc' = "copy"
    /\ UNCHANGED << workerVars, closeRequested, clients, accepting, accepted,
                    hookVars, optionVars, observerPc, snapshot, stopTrace >>

\* Lines 45, 165-166: getClients() returns a copy of _clients and releases.
GetClientsCopy ==
    /\ stopPc = "copy"
    /\ clientsMutex = Stopper
    /\ snapshot' = clients
    /\ clientsMutex' = ReleaseMutex(Stopper)
    /\ stopPc' = "closing"
    /\ stopTrace' = Append(stopTrace, Ev("getClients", 0))
    /\ UNCHANGED << workerVars, closeRequested, clients, accepting, accepted,
                    hookVars, optionVars, observerPc >>

\* Lines 46-49: client->close() on the next session of the loop.
CloseClient(c) ==
    /\ stopPc = "closing"
    /\ c \in CloseTargets \ Closed
    /\ closeRequested' = [closeRequested EXCEPT ![c] = TRUE]
    /\ stopTrace' = Append(stopTrace, Ev("close", c))
    /\ UNCHANGED << workerVars, clients, clientsMutex, accepting, accepted,
                    hookVars, optionVars, observerPc, stopPc, snapshot >>

\* Line 51: SocketServer::stop() is entered once the loop is over.
ServerStop ==
    /\ stopPc = "closing"
    /\ CloseTargets \ Closed = {}
    /\ stopPc' = "joining"
    /\ stopTrace' = Append(stopTrace, Ev("SocketServer::stop", 0))
    /\ UNCHANGED << workerVars, closeRequested, clients, clientsMutex, accepting,
                    accepted, hookVars, optionVars, observerPc, snapshot >>

\* Line 51: SocketServer::stop() has joined every worker; stop() returns.
StopReturns ==
    /\ stopPc = "joining"
    /\ AllWorkersTerminated
    /\ stopPc' = "returned"
    /\ UNCHANGED << workerVars, closeRequested, clients, clientsMutex, accepting,
                    accepted, hookVars, optionVars, observerPc, snapshot, stopTrace >>

\* Lines 36-39, 41-43: stop() is called again once it has returned, by the
\* application or by the destructor.
StopAgain ==
    /\ stopPc = "returned"
    /\ NumStops < MaxStops
    /\ accepting' = FALSE
    /\ stopPc' = "getClients"
    /\ stopTrace' = Append(stopTrace, Ev("stopAcceptingConnections", 0))
    /\ UNCHANGED << workerVars, closeRequested, clients, clientsMutex, accepted,
                    hookVars, optionVars, observerPc, snapshot >>

----------------------------------------------------------------------------
\* The steps of handleConnection that need no close() from stop().
HandleConnectionStep(c) ==
    \/ Dispatch(c)
    \/ \E registers \in BOOLEAN : OnConnectionReturns(c, registers)
    \/ Configure(c)
    \/ LockInsert(c)
    \/ Insert(c)
    \/ \E st \in HandshakeResults : ConnectToSocket(c, st)
    \/ LogHandshake(c)
    \/ Run(c)
    \/ ClearCallback(c)
    \/ LockErase(c)
    \/ Erase(c)
    \/ SetTerminated(c)

WorkerStep(c) ==
    \/ HandleConnectionStep(c)
    \/ RunReturnsLocalClose(c)

StopStep ==
    \/ StopAccepting
    \/ GetClientsLock
    \/ GetClientsCopy
    \/ \E c \in Conns : CloseClient(c)
    \/ ServerStop
    \/ StopReturns

Next ==
    \/ \E cb \in ConnectionCallbacks : setOnConnectionCallback(cb)
    \/ \E cb \in ClientMessageCallbacks : setOnClientMessageCallback(cb)
    \/ Accept
    \/ \E c \in Conns : WorkerStep(c)
    \/ \E c \in Conns : DeliverMessage(c)
    \/ \E c \in Conns : RunReturnsPeerClose(c)
    \/ StopStep

Spec == Init /\ [][Next]_vars

\* stop() is called a second time after it has returned.
NextStopTwice ==
    \/ Next
    \/ StopAgain

StopTwiceSpec == Init /\ [][NextStopTwice]_vars

\* Another thread calls getClients() and getConnectedClientsCount().
ObserverStep ==
    \/ GetClientsCallLock
    \/ GetClientsCallReturns
    \/ GetCountCallLock
    \/ GetCountCallReturns

NextObserved ==
    \/ Next
    \/ ObserverStep

ObserverSpec == Init /\ [][NextObserved]_vars

\* The peers send bursts of messages, some of which the session engine
\* dispatches late; stop() is not called.
NextMessages ==
    \/ \E cb \in ConnectionCallbacks : setOnConnectionCallback(cb)
    \/ \E cb \in ClientMessageCallbacks : setOnClientMessageCallback(cb)
    \/ Accept
    \/ \E c \in Conns : HandleConnectionStep(c)
    \/ \E c \in Conns : DeliverBurst(c)
    \/ \E c \in Conns : DeliverLate(c)
    \/ \E c \in Conns : RunReturnsPeerClose(c)

MessageSpec == Init /\ [][NextMessages]_vars

\* The application also changes the server's options while connections are
\* handled; stop() is not called and the peers send no message.
NextOptions ==
    \/ \E cb \in ConnectionCallbacks : setOnConnectionCallback(cb)
    \/ \E cb \in ClientMessageCallbacks : setOnClientMessageCallback(cb)
    \/ enablePong
    \/ disablePong
    \/ disablePerMessageDeflate
    \/ Accept
    \/ \E c \in Conns : HandleConnectionStep(c)
    \/ \E c \in Conns : RunReturnsPeerClose(c)

OptionSpec == Init /\ [][NextOptions]_vars

\* The scheduler runs every thread that can take a step; a peer is under no
\* obligation to send a message or to close its connection.
FairSpec ==
    /\ Spec
    /\ \A c \in Conns : WF_vars(WorkerStep(c))
    /\ WF_vars(StopStep)

----------------------------------------------------------------------------
(* Reading a worker's trace. *)

Op(c, i) == trace[c][i][1]
Arg(c, i) == trace[c][i][2]
Idx(c, op) == { i \in DOMAIN trace[c] : Op(c, i) = op }
Count(c, op) == Cardinality(Idx(c, op))
StopOp(i) == stopTrace[i][1]
StopIdx(op) == { i \in DOMAIN stopTrace : StopOp(i) = op }

\* The worker has inserted its session and has not erased it.
Enrolled(c) == Count(c, "insert") > 0 /\ Count(c, "erase") = 0

\* The worker went past the hook selection into the configuration.
PassedDispatch(c) == pc[c] = "configure" \/ Count(c, "disableAutomaticReconnection") > 0

HandshakeFailed(c) ==
    \E i \in Idx(c, "connectToSocket") : Arg(c, i) = "failure"

----------------------------------------------------------------------------
\* C1: once stop() has returned, the registry is empty
\* (getConnectedClientsCount() = 0) and no handleConnection worker is running.
C1_StopLeavesNothing ==
    stopPc = "returned" =>
        /\ getConnectedClientsCount = 0
        /\ \A c \in Conns : pc[c] \in {"idle", "done"}

\* stop() has returned after closing a session that was running, while another
\* worker was handled too.
C1_Witness ==
    /\ stopPc = "returned"
    /\ \E c \in Conns : closeRequested[c] /\ Count(c, "run") = 1 /\ Count(c, "erase") = 1
    /\ \A c \in Conns : pc[c] = "done"

\* C2: after stop() is called every worker that was started reaches
\* setTerminated(), and stop() returns.
C2_StopTerminates ==
    (stopPc # "idle") ~> (stopPc = "returned" /\ AllWorkersTerminated)

\* C3: stop() runs stopAcceptingConnections(), then getClients(), then one
\* close() per session of the copy, then SocketServer::stop(); what workers
\* insert or erase meanwhile changes nothing of the set closed, and the
\* mutex is not held during the loop.
C3_StopOrder ==
    /\ \A i \in DOMAIN stopTrace :
        /\ StopOp(i) = "stopAcceptingConnections" <=> i = 1
        /\ StopOp(i) = "getClients" <=> i = 2
        /\ StopOp(i) = "SocketServer::stop" =>
                /\ i = Len(stopTrace)
                /\ i = Cardinality(snapshot) + 3
        /\ StopOp(i) \in {"stopAcceptingConnections", "getClients", "close",
                          "SocketServer::stop"}
    /\ \A i, j \in StopIdx("close") : stopTrace[i][2] = stopTrace[j][2] => i = j
    /\ Closed \subseteq snapshot
    /\ stopPc \in {"joining", "returned"} =>
            /\ Closed = snapshot
            /\ StopIdx("SocketServer::stop") # {}
    /\ stopPc \in {"idle", "getClients", "copy", "closing"} =>
            StopIdx("SocketServer::stop") = {}
    /\ stopPc = "closing" => clientsMutex # Stopper
    /\ \A c \in Conns : closeRequested[c] <=> c \in Closed

\* The loop has closed a session while the registry holds a session that was
\* inserted after the copy and lacks one that was erased after it.
C3_Witness ==
    /\ stopPc = "closing"
    /\ Closed # {}
    /\ clients \ snapshot # {}
    /\ snapshot \ clients # {}

\* C4: every execution of handleConnection calls setTerminated() exactly
\* once, as its last action, on every exit path.
C4_TerminatedOnce ==
    \A c \in Conns :
        /\ Count(c, "setTerminated") <= 1
        /\ pc[c] = "done" <=> Count(c, "setTerminated") = 1
        /\ pc[c] = "done" => Op(c, Len(trace[c])) = "setTerminated"

\* One worker has returned by the no-hook path and another after run().
C4_Witness ==
    /\ \E c \in Conns : pc[c] = "done" /\ Count(c, "run") = 1
    /\ \E c \in Conns : pc[c] = "done" /\ Arg(c, 1) = << FALSE, FALSE >>

\* C5: insert precedes connectToSocket and any session I/O; run() follows a
\* successful connectToSocket only; erase follows the return of run() (or the
\* failed handshake) and the clearing of the per-message handler; erase
\* precedes setTerminated().
C5_StepOrder ==
    \A c \in Conns :
        /\ \A i \in DOMAIN trace[c] :
            Op(c, i) \in {"connectToSocket", "run", "runReturned",
                          "OnClientMessage", "userOnMessage"}
                => \E j \in Idx(c, "insert") : j < i
        /\ \A i \in Idx(c, "run") :
            /\ i > 1
            /\ Op(c, i - 1) = "connectToSocket"
            /\ Arg(c, i - 1) = "success"
        /\ \A i \in Idx(c, "erase") :
            /\ \E j \in Idx(c, "setOnMessageCallback") :
                /\ j < i
                /\ Arg(c, j) = NullCb
                /\ \E k \in 1..(j - 1) :
                    \/ Op(c, k) = "runReturned"
                    \/ Op(c, k) = "connectToSocket" /\ Arg(c, k) = "failure"
            /\ \A r \in Idx(c, "run") :
                \E k \in Idx(c, "runReturned") : r < k /\ k < i
            /\ \E j \in Idx(c, "insert") : j < i
        /\ \A t \in Idx(c, "setTerminated") :
            PassedDispatch(c) => \E i \in Idx(c, "erase") : i < t
        /\ PassedDispatch(c) /\ pc[c] \in {"setTerminated", "done"}
            => Count(c, "erase") = 1

\* A worker has gone through insert, handshake, run, clear, erase and
\* setTerminated, with a message delivered in between.
C5_Witness ==
    \E c \in Conns :
        /\ pc[c] = "done"
        /\ Count(c, "run") = 1
        /\ Count(c, "OnClientMessage") + Count(c, "userOnMessage") > 0

\* C6: a session is in the registry if and only if its worker is past its
\* insert and before its erase; getConnectedClientsCount() is the number of
\* such workers.
C6_RegistryIsEnrolled ==
    /\ clients = { c \in Conns : Enrolled(c) }
    /\ getConnectedClientsCount = Cardinality({ c \in Conns : Enrolled(c) })
    /\ \A c \in Conns :
        Enrolled(c) <=> pc[c] \in {"connect", "logHandshake", "run", "running",
                                   "clearCallback", "lockErase", "erase"}

\* Two workers are between insert and erase at once.
C6_Witness ==
    /\ getConnectedClientsCount = 2
    /\ \E c \in Conns : pc[c] = "running"
    /\ \E c \in Conns : pc[c] = "erase"

\* The trace of a worker from its insert on, when the handshake fails.
FailedHandshakeSteps(st) ==
    << Ev("insert", ""),
       Ev("connectToSocket", "failure"),
       Ev("logError", HandshakeErrorLine(st)),
       Ev("setOnMessageCallback", NullCb),
       Ev("erase", "1"),
       Ev("setTerminated", "") >>

StepsFromInsert(c) ==
    LET first == CHOOSE i \in Idx(c, "insert") : \A j \in Idx(c, "insert") : i <= j
    IN SubSeq(trace[c], first, Len(trace[c]))

\* C7: when connectToSocket fails the session was inserted once before it
\* and is erased once after it, run() is not called, the handshake is not
\* retried, one error line with the HTTP status and the error string is
\* logged, and the registry no longer holds the session.
C7_HandshakeFailure ==
    \A c \in Conns : HandshakeFailed(c) =>
        /\ ~status[c].success
        /\ Count(c, "insert") = 1
        /\ Count(c, "connectToSocket") = 1
        /\ Count(c, "run") = 0
        /\ Count(c, "logError") <= 1
        /\ Count(c, "erase") <= 1
        /\ StepsFromInsert(c) =
                SubSeq(FailedHandshakeSteps(status[c]), 1, Len(StepsFromInsert(c)))
        /\ status[c].http_status = 400 =>
                \A i \in Idx(c, "logError") : Arg(c, i) =
                    "WebSocketServer::handleConnection() HTTP status: 400 error: Error reading HTTP request line"
        /\ pc[c] = "done" =>
                /\ StepsFromInsert(c) = FailedHandshakeSteps(status[c])
                /\ c \notin clients

\* A worker whose handshake failed with status 400 has returned while the
\* other worker's session is still in the registry.
C7_Witness ==
    \E c \in Conns :
        /\ HandshakeFailed(c)
        /\ status[c].http_status = 400
        /\ pc[c] = "done"
        /\ clients = Conns \ {c}

\* The whole trace of a worker that found no hook.
NoHookSteps ==
    << Ev("dispatch", << FALSE, FALSE >>),
       Ev("logError", MsgNoCallback),
       Ev("logError", MsgMissingCallback),
       Ev("setTerminated", "") >>

\* C8: with neither hook set when handleConnection runs, two error lines
\* are logged, connectToSocket and run() are not called, the worker neither
\* inserts nor erases, and the connection is marked terminated.
C8_NoHook ==
    \A c \in Conns :
        (trace[c] # << >> /\ Arg(c, 1) = << FALSE, FALSE >>) =>
            /\ \/ pc[c] = "setTerminated" /\ trace[c] = SubSeq(NoHookSteps, 1, 3)
               \/ pc[c] = "done" /\ trace[c] = NoHookSteps
            /\ c \notin clients
            /\ onMessageCallback[c] = NullCb
            /\ status[c] = NoStatus

\* A worker that found no hook has returned while the other worker, which
\* found one, holds its session in the registry.
C8_Witness ==
    \E c \in Conns :
        /\ pc[c] = "done"
        /\ Arg(c, 1) = << FALSE, FALSE >>
        /\ clients = Conns \ {c}

\* OnConnection has returned to worker c without a call of setOnMessageCallback.
ReturnedUnregistered(c) ==
    /\ Len(trace[c]) >= 3
    /\ Op(c, 2) = "OnConnection"
    /\ Op(c, 3) = "OnConnectionReturned"

\* The trace of such a worker after the dispatch event.
UnregisteredSteps ==
    << Ev("OnConnection", "cbA"),
       Ev("OnConnectionReturned", ""),
       Ev("logError", MsgBadRegistration),
       Ev("logError", MsgMissingSetOnMessage),
       Ev("setTerminated", "") >>

\* C9: when OnConnection returns without a per-message handler on the
\* session, two error lines are logged, no handshake is attempted, the worker
\* neither inserts nor erases, and the connection is marked terminated.
C9_Unregistered ==
    \A c \in Conns : ReturnedUnregistered(c) =>
        /\ \/ /\ pc[c] = "setTerminated"
              /\ SubSeq(trace[c], 2, Len(trace[c])) = SubSeq(UnregisteredSteps, 1, 4)
           \/ /\ pc[c] = "done"
              /\ SubSeq(trace[c], 2, Len(trace[c])) = UnregisteredSteps
        /\ c \notin clients
        /\ status[c] = NoStatus

\* Such a worker has returned while the other worker's session, whose hook
\* did register a handler, is in the registry.
C9_Witness ==
    \E c \in Conns :
        /\ ReturnedUnregistered(c)
        /\ pc[c] = "done"
        /\ clients = Conns \ {c}

\* C10: a worker that finds OnConnection set invokes it once and never
\* installs or invokes OnClientMessage, also when OnConnection registered no
\* handler; OnClientMessage is installed only when OnConnection is unset and
\* OnClientMessage is set.
C10_HookSelection ==
    \A c \in Conns : trace[c] # << >> =>
        LET onConn == Arg(c, 1)[1]
            onMsg == Arg(c, 1)[2]
            lambda == \E i \in Idx(c, "setOnMessageCallback") : Arg(c, i) = "lambda"
        IN
            /\ onConn =>
                /\ Count(c, "OnConnection") = 1
                /\ Op(c, 2) = "OnConnection"
                /\ Count(c, "OnClientMessage") = 0
                /\ ~lambda
                /\ onMessageCallback[c] # "lambda"
            /\ ~onConn => Count(c, "OnConnection") = 0
            /\ lambda <=> (~onConn /\ onMsg)
            /\ Count(c, "OnClientMessage") > 0 => lambda
            /\ (~onConn /\ ~onMsg) => Count(c, "logError") = 2

\* With both hooks set, one worker took OnConnection, whose handler received
\* a message, and another worker's OnConnection registered no handler.
C10_Witness ==
    /\ \E c \in Conns :
        /\ trace[c] # << >>
        /\ Arg(c, 1) = << TRUE, TRUE >>
        /\ Count(c, "userOnMessage") > 0
    /\ \E c \in Conns :
        /\ ReturnedUnregistered(c)
        /\ Arg(c, 1) = << TRUE, TRUE >>
        /\ pc[c] = "done"

----------------------------------------------------------------------------
(* The options of the server. *)

\* Position of the worker's "configure" event.
ConfigureIdx(c) == CHOOSE i \in Idx(c, "configure") : TRUE
Configured(c) == Idx(c, "configure") # {}

\* The pong calls made, and the server's permessage-deflate flag, when the
\* worker's configuration ran.
CallsAtConfigure(c) == Arg(c, ConfigureIdx(c))[1]
DeflateAtConfigure(c) == Arg(c, ConfigureIdx(c))[2]

\* The pong flag a sequence of calls leaves.
PongAfter(calls) ==
    IF calls = << >> THEN kDefaultEnablePong ELSE calls[Len(calls)] = "enablePong"

\* The session's pong setting: the call the configuration made on it.
SessionPong(c) == Count(c, "enablePong") = 1

\* C11: for every connection that reaches the handshake, the session's pong
\* setting equals the server's pong flag and its permessage-deflate setting
\* equals the server's permessage-deflate flag, as the configuration found them.
C11_FlagsApplied ==
    \A c \in Conns : Count(c, "connectToSocket") > 0 =>
        /\ Configured(c)
        /\ SessionPong(c) = PongAfter(CallsAtConfigure(c))
        /\ SessionPerMessageDeflate(c) = DeflateAtConfigure(c)

\* C12: enablePong(); disablePong(); enablePong() leaves the pong flag true
\* and every connection configured afterwards gets pong enabled; a session
\* gets one pong setting, that of the flag when its configuration ran, and
\* later calls do not touch it.
C12_PongSequence ==
    /\ enablePongFlag = PongAfter(pongCalls)
    /\ pongCalls = << "enablePong", "disablePong", "enablePong" >> => enablePongFlag
    /\ \A c \in Conns : Configured(c) =>
        /\ Count(c, "enablePong") + Count(c, "disablePong") = 1
        /\ Op(c, ConfigureIdx(c) + 2) \in {"enablePong", "disablePong"}
        /\ SessionPong(c) = PongAfter(CallsAtConfigure(c))
        /\ CallsAtConfigure(c) = << "enablePong", "disablePong", "enablePong" >>
                => SessionPong(c)

\* After the three calls one session, configured while pong was disabled, is
\* still running with pong disabled, and a connection configured after them
\* has pong enabled.
C12_Witness ==
    /\ pongCalls = << "enablePong", "disablePong", "enablePong" >>
    /\ \E c \in Conns :
        /\ pc[c] = "running"
        /\ CallsAtConfigure(c) = << "enablePong", "disablePong" >>
        /\ ~SessionPong(c)
    /\ \E c \in Conns :
        /\ Configured(c)
        /\ CallsAtConfigure(c) = pongCalls
        /\ SessionPong(c)

----------------------------------------------------------------------------
(* stop() called twice. *)

\* C13: a second stop() closes no session, changes neither the registry nor
\* the state of the server, of the sessions and of the workers, and nothing
\* stands in the way of its return: the mutex is free when getClients() asks
\* for it and every worker is already terminated when the join is reached.
C13_SecondStopNoOp ==
    /\ [](NumStops >= 2 =>
            /\ Closed = {}
            /\ stopPc \in {"closing", "joining", "returned"} => snapshot = {}
            /\ clients = {}
            /\ ~accepting
            /\ AllWorkersTerminated
            /\ clientsMutex = (IF stopPc = "copy" THEN Stopper ELSE Free))
    /\ [][NumStops' >= 2 =>
            UNCHANGED << clients, closeRequested, accepting, accepted, workerVars >>]_vars

\* The second stop() has returned; the first one had closed a running session
\* and joined a second worker.
C13_Witness ==
    /\ NumStops = 2
    /\ stopPc = "returned"
    /\ \E c \in Conns : closeRequested[c] /\ Count(c, "run") = 1 /\ Count(c, "erase") = 1
    /\ \A c \in Conns : pc[c] = "done"
    /\ StopOp(Len(stopTrace)) = "SocketServer::stop"

----------------------------------------------------------------------------
(* The registry mutex. *)

\* Calls into the application's code and into the session engine.
OutsideCalls ==
    {"OnConnection", "OnClientMessage", "userOnMessage", "setOnMessageCallback",
     "disableAutomaticReconnection", "enablePong", "disablePong",
     "connectToSocket", "run"}

\* What worker c does in the step, as trace events.
NewEvents(c) == SubSeq(trace'[c], Len(trace[c]) + 1, Len(trace'[c]))
NewOps(c) == { NewEvents(c)[i][1] : i \in DOMAIN NewEvents(c) }
NewStopOps ==
    { stopTrace'[i][1] : i \in (DOMAIN stopTrace') \ (DOMAIN stopTrace) }

\* A step that calls the application or the session engine is taken by a
\* thread that does not hold the mutex, and the step of a holder is its
\* registry operation alone, which releases the mutex.
MutexStep ==
    /\ \A c \in Conns :
        /\ (NewOps(c) \cap OutsideCalls # {}) =>
                (clientsMutex # Worker(c) /\ clientsMutex' # Worker(c))
        /\ (clientsMutex = Worker(c) /\ trace'[c] # trace[c]) =>
                (NewOps(c) \in {{"insert"}, {"erase"}} /\ clientsMutex' = Free)
    /\ ("close" \in NewStopOps) =>
            (clientsMutex # Stopper /\ clientsMutex' # Stopper)
    /\ (clientsMutex = Stopper /\ stopTrace' # stopTrace) =>
            (NewStopOps = {"getClients"} /\ clientsMutex' = Free)

MutexHeld ==
    /\ \A c \in Conns : (clientsMutex = Worker(c)) <=> (pc[c] \in {"insert", "erase"})
    /\ (clientsMutex = Stopper) <=> (stopPc = "copy")
    /\ (clientsMutex = Observer) <=> (observerPc \in {"copy", "size"})
    /\ \A c \in Conns : pc[c] \in {"inOnConnection", "running"} =>
            clientsMutex # Worker(c)

\* C14: a thread holds the registry mutex exactly while it stands at its
\* insert, erase, copy or size; no OnConnection or run() is in progress in a
\* thread that holds it; no thread holds it across a call into the
\* application's code or into the session engine.
C14_MutexScope == []MutexHeld /\ [][MutexStep]_vars

\* While getConnectedClientsCount() holds the mutex, one worker is inside
\* run() and has had a message delivered to the hook, another waits for the
\* mutex to erase its session, and stop() is inside its loop of close().
C14_Witness ==
    /\ clientsMutex = Observer
    /\ observerPc = "size"
    /\ \E c \in Conns : pc[c] = "running" /\ Count(c, "OnClientMessage") > 0
    /\ \E c \in Conns : pc[c] = "lockErase"
    /\ stopPc = "closing"
    /\ Closed # {}

----------------------------------------------------------------------------
(* The per-message handler at the erase. *)

\* The last setOnMessageCallback before position i of the worker's trace
\* clears the handler.
ClearedBefore(c, i) ==
    \E j \in Idx(c, "setOnMessageCallback") :
        /\ j < i
        /\ Arg(c, j) = NullCb
        /\ \A k \in Idx(c, "setOnMessageCallback") : k < i => k <= j

\* C15: when a worker executes its erase, the per-message callback of its
\* session is null: it is null from the moment the worker asks for the mutex
\* of the erase, and the last setOnMessageCallback before every erase is the
\* one that clears it, whichever hook was selected and whatever the handshake
\* returned.
C15_NullAtErase ==
    \A c \in Conns :
        /\ pc[c] \in {"lockErase", "erase"} =>
                /\ onMessageCallback[c] = NullCb
                /\ ClearedBefore(c, Len(trace[c]) + 1)
        /\ \A i \in Idx(c, "erase") : ClearedBefore(c, i)

\* A worker of the OnConnection path whose session ran stands at its erase,
\* and a worker of the OnClientMessage path whose handshake failed has erased.
C15_Witness ==
    /\ \E c \in Conns :
        /\ pc[c] = "erase"
        /\ Arg(c, 1)[1]
        /\ Count(c, "userOnMessage") > 0
        /\ Count(c, "runReturned") = 1
    /\ \E c \in Conns :
        /\ Count(c, "erase") = 1
        /\ Arg(c, 1) = << FALSE, TRUE >>
        /\ HandshakeFailed(c)

----------------------------------------------------------------------------
(* The count of the erase. *)

HandshakeSucceeded(c) ==
    \E i \in Idx(c, "connectToSocket") : Arg(c, i) = "success"

\* C16: with the workers, stop(), getClients() and getConnectedClientsCount()
\* interleaved in every way, each erase removes exactly one entry and "Cannot
\* delete client" is never logged; a connection whose hook registration was
\* accepted and whose handshake succeeded logs no error line.
C16_EraseCount ==
    \A c \in Conns :
        /\ \A i \in Idx(c, "erase") : Arg(c, i) = "1"
        /\ \A i \in Idx(c, "logError") : Arg(c, i) # MsgCannotDelete
        /\ pc[c] = "erase" => EraseCount(clients, c) = 1
        /\ (PassedDispatch(c) /\ HandshakeSucceeded(c)) => Count(c, "logError") = 0

\* A worker whose session ran and was closed by stop() has erased it and
\* returned without a log line, while getClients() holds the mutex and the
\* other worker, whose handshake failed, waits for it to erase.
C16_Witness ==
    /\ observerPc = "copy"
    /\ stopPc \in {"closing", "joining"}
    /\ \E c \in Conns :
        /\ pc[c] = "done"
        /\ closeRequested[c]
        /\ HandshakeSucceeded(c)
        /\ Count(c, "erase") = 1
        /\ Count(c, "logError") = 0
    /\ \E c \in Conns : pc[c] = "lockErase" /\ HandshakeFailed(c)

----------------------------------------------------------------------------
(* The messages of the OnClientMessage path. *)

\* The calls of the OnClientMessage hook in the worker's trace, and the rank
\* of one of them among them.
HookCalls(c) == Idx(c, "OnClientMessage")
Rank(c, i) == Cardinality({ j \in HookCalls(c) : j <= i })

\* The handler of the worker's session is the lambda of the server.
OnLambdaPath(c) ==
    \E i \in Idx(c, "setOnMessageCallback") : Arg(c, i) = "lambda"

\* C17: on the OnClientMessage path the n-th call of the hook for a connection
\* carries the n-th message delivered to its session, so every message is
\* handed over once and in order, and each call carries the connectionState,
\* the connectionInfo and the session of that very connection.
C17_OwnArguments ==
    \A c \in Conns :
        /\ \A i \in HookCalls(c) :
            /\ Arg(c, i).msg = Rank(c, i)
            /\ Arg(c, i).connectionState = c
            /\ Arg(c, i).connectionInfo = c
            /\ Arg(c, i).ws = c
            /\ OnLambdaPath(c)
        /\ OnLambdaPath(c) =>
            /\ Count(c, "OnClientMessage") = NumMessages(c)
            /\ Count(c, "userOnMessage") = 0

\* Two connections are inside run() at once and each has had its burst of
\* messages handed to the hook.
C17_Witness ==
    \A c \in Conns :
        /\ pc[c] = "running"
        /\ Count(c, "OnClientMessage") = MaxBurst
        /\ Arg(c, Len(trace[c])).msg = MaxBurst
        /\ Arg(c, Len(trace[c])).ws = c

----------------------------------------------------------------------------
(* Late messages. *)

\* The calls of a handler of the session, the hook's or the application's own.
HandlerCalls(c) == HookCalls(c) \cup Idx(c, "userOnMessage")

\* The steps after which the worker's objects may be released.
Clearings(c) ==
    { i \in Idx(c, "setOnMessageCallback") : Arg(c, i) = NullCb }
        \cup Idx(c, "erase") \cup Idx(c, "setTerminated")

\* C18: no handler of a connection is called after the worker has cleared
\* the session's per-message handler, hence none after its erase nor after
\* setTerminated(), although the session engine may still dispatch a frame
\* once run() has returned; and no worker erases without having cleared.
C18_NoLateCall ==
    \A c \in Conns :
        /\ \A i \in HandlerCalls(c) : \A j \in Clearings(c) : i < j
        /\ \A j \in Idx(c, "erase") \cup Idx(c, "setTerminated") :
                PassedDispatch(c) =>
                    \E k \in Idx(c, "setOnMessageCallback") : k < j /\ Arg(c, k) = NullCb
        /\ Clearings(c) # {} => onMessageCallback[c] = NullCb

\* After run() had returned the session engine dispatched a frame to the
\* hook; the worker has then cleared the handler, erased and terminated, and
\* the peer's second message has reached no handler.
C18_Witness ==
    \E c \in Conns :
        /\ pc[c] = "done"
        /\ \E i \in HookCalls(c) : \E r \in Idx(c, "runReturned") : r < i
        /\ NumMessages(c) < MaxBurst
        /\ Count(c, "erase") = 1
        /\ onMessageCallback[c] = NullCb

----------------------------------------------------------------------------
(* Replacing the OnClientMessage hook. *)

\* Every call of the hook made in the step goes to the hook the server has
\* when the message arrives.
CallsCurrentHook ==
    \A c \in Conns :
        \A i \in DOMAIN NewEvents(c) :
            NewEvents(c)[i][1] = "OnClientMessage" =>
                NewEvents(c)[i][2].hook = onClientMessageCallback

\* The messages of a session that got the lambda go to the OnClientMessage
\* hook, whatever hooks are set meanwhile.
PathFixed ==
    \A c \in Conns : OnLambdaPath(c) =>
        /\ Arg(c, 1) = << FALSE, TRUE >>
        /\ Count(c, "OnConnection") = 0
        /\ Count(c, "userOnMessage") = 0
        /\ onMessageCallback[c] \in {"lambda", NullCb}

\* C19: the lambda calls the OnClientMessage hook that the server has at the
\* moment of each delivery, not the one set when the connection was
\* configured, so that a connection's later messages go to a replacement
\* hook; the choice between OnConnection and OnClientMessage made at the
\* configuration stays.
C19_HookReadAtDelivery == []PathFixed /\ [][CallsCurrentHook]_vars

\* A connection inside run() had its first message handed to cb1 and, the
\* hook having been replaced, its second to cb2; the OnConnection hook has
\* been set since the connection was configured.
C19_Witness ==
    \E c \in Conns :
        /\ pc[c] = "running"
        /\ OnLambdaPath(c)
        /\ Count(c, "OnClientMessage") = 2
        /\ \E i, j \in HookCalls(c) :
            /\ i < j
            /\ Arg(c, i).hook = "cb1"
            /\ Arg(c, j).hook = "cb2"
        /\ onClientMessageCallback = "cb2"
        /\ onConnectionCallback = "cbA"

----------------------------------------------------------------------------
(* What the registry shows. *)

\* Before its insert the worker has seen a handler registered on the
\* session, disabled the automatic reconnection and applied the pong setting.
ConfiguredBeforeInsert(c) ==
    \E i \in Idx(c, "insert") :
        \E h \in Idx(c, "setOnMessageCallback") :
            \E d \in Idx(c, "disableAutomaticReconnection") :
                \E p \in Idx(c, "enablePong") \cup Idx(c, "disablePong") :
                    /\ Arg(c, h) \in {"lambda", "user"}
                    /\ h < d
                    /\ d < p
                    /\ p < i

\* The worker gave its session up on a misconfiguration.
Abandoned(c) ==
    \E i \in Idx(c, "logError") : Arg(c, i) \in {MsgBadRegistration, MsgNoCallback}

\* C20: a session that is in the registry, in the copy that getClients()
\* returns, or that stop() has closed, was configured in full before it was
\* inserted; a session given up on a misconfiguration is in none of them
\* and is never closed by stop().
C20_VisibleIsConfigured ==
    \A c \in Conns :
        /\ (c \in clients \/ c \in snapshot \/ c \in Closed \/ closeRequested[c]) =>
                ConfiguredBeforeInsert(c)
        /\ Abandoned(c) =>
                /\ c \notin clients
                /\ c \notin snapshot
                /\ c \notin Closed
                /\ ~closeRequested[c]
                /\ Count(c, "insert") = 0

\* getClients() is copying a registry that holds a session inside run(),
\* which stop() has closed, while the other worker has given its session up
\* because OnConnection registered no handler.
C20_Witness ==
    /\ observerPc = "copy"
    /\ stopPc = "closing"
    /\ \E c \in Conns :
        /\ c \in clients
        /\ c \in Closed
        /\ pc[c] = "running"
    /\ \E c \in Conns :
        /\ Abandoned(c)
        /\ pc[c] = "done"
        /\ Count(c, "OnConnection") = 1

============================================================================
